---- MODULE Spec2Model ----
(***************************************************************************)
(* Model of the per-instrument trading engine of mbot: the order sizer of  *)
(* src/bot_core.py (round_step_size, conform_qty_and_notional,             *)
(* Bot._compute_qty), the loop of Bot.run with its position machine, and   *)
(* the ledger writes of src/storage.py it performs.                        *)
(*                                                                         *)
(* Numbers.  Python floats are modelled as exact rationals [n, d] (d > 0,  *)
(* lowest terms), so floating-point rounding error is outside the model.   *)
(* Prices, balances and the exchange filters are drawn from integers: a    *)
(* quantity 1 is one base lot, a price is the price of one base lot.       *)
(* Close times are the integers 1..MaxTime; 0 stands for Python's None.    *)
(***************************************************************************)
EXTENDS Integers, Sequences, FiniteSets, TLC

\* ---------------------------------------------------------------- bounds
\* the engine: close times, prices, balances, filter values
MaxTime == 3
MaxPrice == 2
MaxBal == 1
MaxFilter == 1
MaxNotional == 3
\* the order sizer on its own
SzMaxBal == 3
SzMaxPrice == 3
SzMaxFilter == 3
SzMaxNotional == 4
SzMaxPos == 2
\* the control surface: instruments and Bot objects constructed
MaxSymbols == 1
\* the indicators on their own: window length and short-EMA values
MaxBars == 3
MaxEma == 1
MaxClose == 2
MaxRsiLen == 3
MaxEngines == 3

\* ------------------------------------------------------------- rationals
\* Euclid's algorithm, as a function so that its arguments are values.
GcdOf[a \in Nat, b \in Nat] == IF b = 0 THEN a ELSE GcdOf[b, a % b]
Gcd(a, b) == GcdOf[a, b]

Abs(x) == IF x < 0 THEN -x ELSE x

\* The rational n/d (d # 0) in lowest terms with a positive denominator.
Rat(n, d) ==
  LET g == Gcd(Abs(n), Abs(d))
      s == IF d < 0 THEN -1 ELSE 1
  IN [n |-> (s * n) \div g, d |-> (s * d) \div g]

FromInt(i) == [n |-> i, d |-> 1]
Zero == FromInt(0)
RLess(a, b) == a.n * b.d < b.n * a.d
RLeq(a, b) == a.n * b.d <= b.n * a.d
RMin(a, b) == IF RLess(b, a) THEN b ELSE a
RMax(a, b) == IF RLess(a, b) THEN b ELSE a
RMul(a, b) == Rat(a.n * b.n, a.d * b.d)
RSub(a, b) == Rat(a.n * b.d - b.n * a.d, a.d * b.d)
\* floor(a / s) for an integer s > 0
RFloorDiv(a, s) == a.n \div (a.d * s)
IsMultiple(a, s) == a.d = 1 /\ a.n % s = 0

\* ------------------------------------------------------------ order sizer
\* round_step_size(quantity, step_size)
RoundStepSize(quantity, step_size) ==
  IF step_size <= 0 THEN quantity
  ELSE FromInt(RFloorDiv(quantity, step_size) * step_size)

\* The filters the exchange returns: LOT_SIZE minQty, maxQty, stepSize and
\* MIN_NOTIONAL minNotional.
Filters(lo, hi, st, mn) == [minQty |-> lo, maxQty |-> hi, stepSize |-> st, minNotional |-> mn]

\* conform_qty_and_notional(qty, price, filters).  The result is
\* [raised, qty]: raised is the ZeroDivisionError of min_notional / price.
ConformQtyAndNotional(qty, price, filters) ==
  LET min_qty == FromInt(filters.minQty)
      max_qty == FromInt(filters.maxQty)
      step == filters.stepSize
      min_notional == filters.minNotional
      clamped == RMax(min_qty, RMin(qty, max_qty))
      q1 == RoundStepSize(clamped, step)
  IN IF RLess(RMul(q1, FromInt(price)), FromInt(min_notional))
     THEN IF price = 0
          THEN [raised |-> TRUE, qty |-> Zero]
          ELSE [raised |-> FALSE,
                qty |-> RoundStepSize(Rat(min_notional * 101, price * 100), step)]
     ELSE [raised |-> FALSE, qty |-> q1]

\* Lines 204-207 of Bot._compute_qty: the raw quantity from the balance, the
\* risk fraction (risk_pct, here in percent) and the cap max_pos.
RawQty(bal, riskPct, maxPos, price) ==
  LET amount == Rat(bal * riskPct, 100)
      capped == IF maxPos > 0 THEN RMin(amount, FromInt(maxPos)) ELSE amount
  IN IF price > 0 THEN Rat(capped.n, capped.d * price) ELSE Zero

\* ----------------------------------------------------------------- inputs
CloseTimes == 1..MaxTime
\* close of the newest bar (line 150) and the live ticker price (line 174)
ClosePrices == 1..MaxPrice
LivePrices == 0..MaxPrice
\* free quote balance returned by get_account
Balances == {4 * k : k \in 0..MaxBal}
\* the filters get_symbol_info can return: stepSize > 0, minQty <= maxQty
FilterSet ==
  {Filters(lo, hi, st, mn) : lo \in 0..MaxFilter, hi \in 1..(MaxFilter + 1),
                             st \in 1..MaxFilter, mn \in {0, MaxNotional}}
\* risk_pct in percent and max_pos (0 = no cap), the constructor's arguments
RiskPcts == {50}
MaxPosSet == {0}
\* One bar's strongUpTrend / strongDownTrend on the last two rows of the
\* window; they are exclusive on one row (emaShort > emaLong, emaShort < emaLong).
TrendRows ==
  {r \in [upPrev : BOOLEAN, up : BOOLEAN, downPrev : BOOLEAN, down : BOOLEAN] :
     ~(r.up /\ r.down) /\ ~(r.upPrev /\ r.downPrev)}

\* Lines 108-111 of TrendPhases.compute on the last row.
EdgeFlags(r) ==
  [debutHausse |-> r.up /\ ~r.upPrev,
   debutBaisse |-> r.down /\ ~r.downPrev,
   finHausse   |-> r.upPrev /\ ~r.up,
   finBaisse   |-> r.downPrev /\ ~r.down]

NoFlags == [debutHausse |-> FALSE, debutBaisse |-> FALSE, finHausse |-> FALSE, finBaisse |-> FALSE]

\* ------------------------------------------------------------------ state
VARIABLES
  pc,               \* where Bot.run stands
  stop,             \* Bot._stop, the cancellation event
  dry_run, risk_pct, max_pos,            \* constructor arguments
  pos_side, pos_qty, entry_price,        \* the Position
  last_close_time,                       \* 0 is None
  orders,           \* market orders submitted to the exchange, or simulated
  trades,           \* rows of the ledger's trades table written by this engine
  positions,        \* this instrument's row of the positions table: <<>> or <<row>>
  tick,             \* the locals of the current loop iteration
  tick0,            \* Position, ledger and order counts when the iteration began
  bots,             \* st.session_state["bots"]: instrument -> engine, 0 when absent
  threads,          \* every Bot the control surface constructed, by engine number
  view              \* the status row being rendered from the engine's Position

vars == <<pc, stop, dry_run, risk_pct, max_pos, pos_side, pos_qty, entry_price,
          last_close_time, orders, trades, positions, tick, tick0, bots, threads, view>>

\* The control surface's own state (dashboard.py).
surface == <<bots, threads, view>>

config == <<dry_run, risk_pct, max_pos>>
position == <<pos_side, pos_qty, entry_price>>

\* The locals of one iteration of the loop of Bot.run, before it runs.
NewTick ==
  [nct |-> 0, fetched |-> FALSE, evaluated |-> FALSE, computed |-> FALSE,
   sig |-> NoFlags, price |-> 0, price_now |-> 0, sized |-> FALSE, qty |-> Zero,
   failed |-> {}, logged |-> FALSE]

Snapshot ==
  [side |-> pos_side, qty |-> pos_qty, entry |-> entry_price,
   ntrades |-> Len(trades), norders |-> Len(orders), lct |-> last_close_time]

\* The instruments of the control surface and the Bot objects it constructs.
Symbols == 1..MaxSymbols
Engines == 1..MaxEngines

\* The status row before it is rendered.
NoView == [pc |-> "idle", side |-> "FLAT", qty |-> Zero, entry |-> 0]

\* dashboard.py lines 10-11: an empty registry; no Bot constructed yet.
SurfaceInit ==
  /\ bots = [s \in Symbols |-> 0]
  /\ threads = <<>>
  /\ view = NoView

\* Bot.__init__ (lines 124-128) with an empty ledger for the instrument.
Init ==
  /\ SurfaceInit
  /\ pc = "start"
  /\ stop = FALSE
  /\ dry_run \in BOOLEAN
  /\ risk_pct \in RiskPcts
  /\ max_pos \in MaxPosSet
  /\ pos_side = "FLAT" /\ pos_qty = Zero /\ entry_price = 0
  /\ last_close_time = 0
  /\ orders = <<>> /\ trades = <<>> /\ positions = <<>>
  /\ tick = NewTick
  /\ tick0 = [side |-> "FLAT", qty |-> Zero, entry |-> 0, ntrades |-> 0, norders |-> 0, lct |-> 0]

\* An exception leaves the try body for one of the handlers of lines 181-184.
Raise(call) ==
  /\ pc' = "handler"
  /\ tick' = [tick EXCEPT !.failed = @ \cup {call}]

\* ------------------------------------------------------------- Bot.run
\* Lines 131-134: the start log and the initial fetch succeed.
InitKlines ==
  /\ pc = "start"
  /\ \E t \in CloseTimes : last_close_time' = t
  /\ pc' = "loop"
  /\ UNCHANGED <<stop, config, surface, position, orders, trades, positions, tick, tick0>>

\* Mutant: after a failed initial fetch the engine enters the loop.
InitFailedEntersLoop ==
  /\ pc = "start"
  /\ pc' = "loop"
  /\ tick' = [tick EXCEPT !.failed = {"klines"}, !.logged = TRUE]
  /\ UNCHANGED <<stop, config, surface, position, last_close_time, orders, trades, positions, tick0>>

\* Lines 131-137 when run returns before the loop: the start log raises
\* (line 131); or the initial fetch fails and the error is logged once (line
\* 136) before the return of line 137; or that log write raises as well.
InitFailed ==
  /\ pc = "start"
  /\ pc' = "init_failed"
  /\ \/ tick' = [tick EXCEPT !.failed = {"log"}]
     \/ tick' = [tick EXCEPT !.failed = {"klines"}, !.logged = TRUE]
     \/ tick' = [tick EXCEPT !.failed = {"klines", "log"}]
  /\ UNCHANGED <<stop, config, surface, position, last_close_time, orders, trades, positions, tick0>>

\* Mutant: the loop test ignores the cancellation event.
LoopEnterAlways ==
  /\ pc = "loop"
  /\ pc' = "fetch"
  /\ tick' = NewTick
  /\ tick0' = Snapshot
  /\ UNCHANGED <<stop, config, surface, position, last_close_time, orders, trades, positions>>

\* Line 139, the loop test, stop not set: the iteration is admitted.
LoopEnter ==
  /\ pc = "loop"
  /\ ~stop
  /\ pc' = "fetch"
  /\ tick' = NewTick
  /\ tick0' = Snapshot
  /\ UNCHANGED <<stop, config, surface, position, last_close_time, orders, trades, positions>>

\* Lines 139 and 186: stop is set, the loop ends and run returns; its locals
\* are gone.
LoopExit ==
  /\ pc = "loop"
  /\ stop
  /\ pc' = "stopped"
  /\ tick' = NewTick
  /\ UNCHANGED <<stop, config, surface, position, last_close_time, orders, trades, positions, tick0>>

\* Mutant: the dedup test is nct < last_close_time, so an equal close time
\* is evaluated again.
FetchKlinesStrict ==
  /\ pc = "fetch"
  /\ \E t \in CloseTimes :
       /\ IF last_close_time # 0 /\ t < last_close_time
          THEN /\ pc' = "loop"
               /\ UNCHANGED last_close_time
          ELSE /\ pc' = "compute"
               /\ last_close_time' = t
       /\ tick' = [tick EXCEPT !.nct = t, !.fetched = TRUE,
                               !.evaluated = ~(last_close_time # 0 /\ t < last_close_time)]
  /\ UNCHANGED <<stop, config, surface, position, orders, trades, positions, tick0>>

\* Lines 141-146: sleep, fetch the window, the dedup test.
FetchKlines ==
  /\ pc = "fetch"
  /\ \E t \in CloseTimes :
       /\ IF last_close_time # 0 /\ t <= last_close_time
          THEN /\ pc' = "loop"
               /\ UNCHANGED last_close_time
          ELSE /\ pc' = "compute"
               /\ last_close_time' = t
       /\ tick' = [tick EXCEPT !.nct = t, !.fetched = TRUE,
                               !.evaluated = ~(last_close_time # 0 /\ t <= last_close_time)]
  /\ UNCHANGED <<stop, config, surface, position, orders, trades, positions, tick0>>

FetchKlinesFails ==
  /\ pc = "fetch"
  /\ Raise("klines")
  /\ UNCHANGED <<stop, config, surface, position, last_close_time, orders, trades, positions, tick0>>

\* Mutant: the exit test of line 165 reads debutBaisse only.
DecideNoFinHausse(sig) ==
  IF pos_side = "LONG"
  THEN IF sig.debutBaisse
       THEN IF RLess(Zero, pos_qty) THEN "sell" ELSE "set_flat"
       ELSE "loop"
  ELSE IF sig.debutHausse THEN "ticker" ELSE "loop"

\* Mutant: the exit test of line 165 also reads finBaisse.
DecideOnFinBaisse(sig) ==
  IF pos_side = "LONG"
  THEN IF sig.debutBaisse \/ sig.finHausse \/ sig.finBaisse
       THEN IF RLess(Zero, pos_qty) THEN "sell" ELSE "set_flat"
       ELSE "loop"
  ELSE IF sig.debutHausse THEN "ticker" ELSE "loop"

\* Lines 148-179 up to the first call of a branch: the indicators and flags
\* of the newest row, the DEBUG log, and the choice of the branch.
Decide(sig) ==
  IF pos_side = "LONG"
  THEN IF sig.debutBaisse \/ sig.finHausse
       THEN IF RLess(Zero, pos_qty) THEN "sell" ELSE "set_flat"
       ELSE "loop"
  ELSE IF sig.debutHausse THEN "ticker" ELSE "loop"

Compute ==
  /\ pc = "compute"
  /\ \E r \in TrendRows, p \in ClosePrices :
       /\ tick' = [tick EXCEPT !.computed = TRUE, !.sig = EdgeFlags(r), !.price = p,
                               !.qty = IF Decide(EdgeFlags(r)) = "sell" THEN pos_qty ELSE @]
       /\ pc' = Decide(EdgeFlags(r))
  /\ UNCHANGED <<stop, config, surface, position, last_close_time, orders, trades, positions, tick0>>

\* strat.compute raises (line 148), or the flags are computed and the DEBUG
\* log write fails (line 157).
ComputeFails ==
  /\ pc = "compute"
  /\ pc' = "handler"
  /\ \/ tick' = [tick EXCEPT !.failed = @ \cup {"compute"}]
     \/ \E r \in TrendRows, p \in ClosePrices :
          tick' = [tick EXCEPT !.computed = TRUE, !.sig = EdgeFlags(r), !.price = p,
                               !.failed = @ \cup {"log"}]
  /\ UNCHANGED <<stop, config, surface, position, last_close_time, orders, trades, positions, tick0>>

\* A row of the trades table (insert_trade, storage.py lines 84-93); pnl is
\* <<>> for None and <<x>> for the value x.
TradeRow(side, qty, price, pnl, extra) ==
  [side |-> side, qty |-> qty, price |-> price,
   notional |-> RMul(qty, FromInt(price)), pnl |-> pnl, extra |-> extra]

Order(side, qty) == [side |-> side, qty |-> qty, sim |-> dry_run]

\* Mutant: in dry-run the simulated order ends the tick.
SubmitMarketDryEnds(side, next) ==
  /\ orders' = Append(orders, Order(side, tick.qty))
  /\ pc' = IF dry_run THEN "loop" ELSE next
  /\ UNCHANGED <<stop, config, surface, position, last_close_time, trades, positions, tick, tick0>>

\* _buy_market / _sell_market: in dry-run the order is only logged, else
\* create_order is called and its response logged.
SubmitMarket(side, next) ==
  /\ orders' = Append(orders, Order(side, tick.qty))
  /\ pc' = next
  /\ UNCHANGED <<stop, config, surface, position, last_close_time, trades, positions, tick, tick0>>

\* create_order raises (lines 217, 224); never called in dry-run.
SubmitMarketFails ==
  /\ ~dry_run
  /\ Raise("order")
  /\ UNCHANGED <<stop, config, surface, position, last_close_time, orders, trades, positions, tick0>>

\* The log write of _buy_market / _sell_market fails: in dry-run nothing was
\* simulated, otherwise the order is already at the exchange.
SubmitMarketLogFails(side) ==
  /\ orders' = IF dry_run THEN orders ELSE Append(orders, Order(side, tick.qty))
  /\ Raise("log")
  /\ UNCHANGED <<stop, config, surface, position, last_close_time, trades, positions, tick0>>

\* Line 168
SellMarket ==
  /\ pc = "sell"
  /\ SubmitMarket("SELL", "sell_trade")

SellMarketFails ==
  /\ pc = "sell"
  /\ (SubmitMarketFails \/ SubmitMarketLogFails("SELL"))

\* Mutant: entry and exit price swapped.
PnlSwapped(price, entry, qty) == RMul(FromInt(entry - price), qty)

\* Line 169: the realized pnl of the exit
Pnl(price, entry, qty) == RMul(FromInt(price - entry), qty)

\* Lines 169-170
SellTrade ==
  /\ pc = "sell_trade"
  /\ trades' = Append(trades, TradeRow("SELL", tick.qty, tick.price,
                                       <<Pnl(tick.price, entry_price, tick.qty)>>, "exit"))
  /\ pc' = "set_flat"
  /\ UNCHANGED <<stop, config, surface, position, last_close_time, orders, positions, tick, tick0>>

SellTradeFails ==
  /\ pc = "sell_trade"
  /\ Raise("insert_trade")
  /\ UNCHANGED <<stop, config, surface, position, last_close_time, orders, trades, positions, tick0>>

\* _set_flat, line 232: three assignments, one at a time
SetFlatSide ==
  /\ pc = "set_flat"
  /\ pos_side' = "FLAT"
  /\ pc' = "set_flat_qty"
  /\ UNCHANGED <<stop, config, surface, pos_qty, entry_price, last_close_time, orders, trades, positions, tick, tick0>>

\* Mutant: _set_flat leaves pos_qty as it was.
SetFlatQtyKept ==
  /\ pc = "set_flat_qty"
  /\ pc' = "set_flat_entry"
  /\ UNCHANGED <<stop, config, surface, position, last_close_time, orders, trades, positions, tick, tick0>>

SetFlatQty ==
  /\ pc = "set_flat_qty"
  /\ pos_qty' = Zero
  /\ pc' = "set_flat_entry"
  /\ UNCHANGED <<stop, config, surface, pos_side, entry_price, last_close_time, orders, trades, positions, tick, tick0>>

SetFlatEntry ==
  /\ pc = "set_flat_entry"
  /\ entry_price' = 0
  /\ pc' = "clear_position"
  /\ UNCHANGED <<stop, config, surface, pos_side, pos_qty, last_close_time, orders, trades, positions, tick, tick0>>

\* _set_flat, line 233, and clear_position (storage.py lines 75-82)
ClearPosition ==
  /\ pc = "clear_position"
  /\ positions' = <<>>
  /\ pc' = "loop"
  /\ UNCHANGED <<stop, config, surface, position, last_close_time, orders, trades, tick, tick0>>

ClearPositionFails ==
  /\ pc = "clear_position"
  /\ Raise("clear_position")
  /\ UNCHANGED <<stop, config, surface, position, last_close_time, orders, trades, positions, tick0>>

\* Line 174: the live reference price
Ticker ==
  /\ pc = "ticker"
  /\ \E p \in LivePrices : tick' = [tick EXCEPT !.price_now = p]
  /\ pc' = "compute_qty"
  /\ UNCHANGED <<stop, config, surface, position, last_close_time, orders, trades, positions, tick0>>

TickerFails ==
  /\ pc = "ticker"
  /\ Raise("ticker")
  /\ UNCHANGED <<stop, config, surface, position, last_close_time, orders, trades, positions, tick0>>

\* What get_account yields in _compute_qty (lines 194-202): the free balance,
\* or 0.0 when the call raised and the error was logged.
AccountOutcomes ==
  {[ok |-> TRUE, bal |-> b] : b \in Balances} \cup {[ok |-> FALSE, bal |-> 0]}

\* Bot._compute_qty (lines 191-211): every outcome of get_account and of the
\* filters lookup, with what line 210 makes of it at live price p.
\* Tabulated for every risk_pct, max_pos and price.
SizerTable ==
  {[risk_pct |-> k, max_pos |-> m, price |-> p, ok |-> a.ok,
    r |-> ConformQtyAndNotional(RawQty(a.bal, k, m, p), p, f)] :
      k \in RiskPcts, m \in MaxPosSet, p \in LivePrices, a \in AccountOutcomes, f \in FilterSet}

SizerOutcomes(p) ==
  {o \in SizerTable : o.risk_pct = risk_pct /\ o.max_pos = max_pos /\ o.price = p}

\* Bot._compute_qty returning a quantity (get_account may have failed and
\* been logged, line 202), and the test of line 176 on it.
ComputeQty ==
  /\ pc = "compute_qty"
  /\ \E o \in SizerOutcomes(tick.price_now) :
       /\ ~o.r.raised
       /\ tick' = [tick EXCEPT !.sized = TRUE, !.qty = o.r.qty,
                               !.failed = IF o.ok THEN @ ELSE @ \cup {"account"},
                               !.logged = IF o.ok THEN @ ELSE TRUE]
       /\ pc' = IF RLess(Zero, o.r.qty) THEN "buy" ELSE "loop"
  /\ UNCHANGED <<stop, config, surface, position, last_close_time, orders, trades, positions, tick0>>

\* Bot._compute_qty raising: the log write of line 202 fails after
\* get_account failed, get_symbol_info raises or finds no symbol (lines
\* 44-45), or min_notional / price divides by zero (line 65).
ComputeQtyFails ==
  /\ pc = "compute_qty"
  /\ pc' = "handler"
  /\ \/ tick' = [tick EXCEPT !.failed = @ \cup {"account", "log"}]
     \/ \E ok \in BOOLEAN :
          tick' = [tick EXCEPT !.failed = (IF ok THEN @ ELSE @ \cup {"account"}) \cup {"filters"},
                               !.logged = IF ok THEN @ ELSE TRUE]
     \/ \E o \in SizerOutcomes(tick.price_now) :
          /\ o.r.raised
          /\ tick' = [tick EXCEPT !.failed = (IF o.ok THEN @ ELSE @ \cup {"account"}) \cup {"conform"},
                                  !.logged = IF o.ok THEN @ ELSE TRUE]
  /\ UNCHANGED <<stop, config, surface, position, last_close_time, orders, trades, positions, tick0>>

\* Line 177
BuyMarket ==
  /\ pc = "buy"
  /\ SubmitMarket("BUY", "buy_trade")

BuyMarketFails ==
  /\ pc = "buy"
  /\ (SubmitMarketFails \/ SubmitMarketLogFails("BUY"))

\* Line 178
BuyTrade ==
  /\ pc = "buy_trade"
  /\ trades' = Append(trades, TradeRow("BUY", tick.qty, tick.price_now, <<>>, "entry"))
  /\ pc' = "set_long"
  /\ UNCHANGED <<stop, config, surface, position, last_close_time, orders, positions, tick, tick0>>

\* Mutant: a failed insert_trade of the entry is swallowed and the tick goes on.
BuyTradeFailsIgnored ==
  /\ pc = "buy_trade"
  /\ pc' = "set_long"
  /\ tick' = [tick EXCEPT !.failed = @ \cup {"insert_trade"}]
  /\ UNCHANGED <<stop, config, surface, position, last_close_time, orders, trades, positions, tick0>>

BuyTradeFails ==
  /\ pc = "buy_trade"
  /\ Raise("insert_trade")
  /\ UNCHANGED <<stop, config, surface, position, last_close_time, orders, trades, positions, tick0>>

\* _set_long(qty, price_now), line 228: three assignments, one at a time
SetLongSide ==
  /\ pc = "set_long"
  /\ pos_side' = "LONG"
  /\ pc' = "set_long_qty"
  /\ UNCHANGED <<stop, config, surface, pos_qty, entry_price, last_close_time, orders, trades, positions, tick, tick0>>

SetLongQty ==
  /\ pc = "set_long_qty"
  /\ pos_qty' = tick.qty
  /\ pc' = "set_long_entry"
  /\ UNCHANGED <<stop, config, surface, pos_side, entry_price, last_close_time, orders, trades, positions, tick, tick0>>

\* Mutant: _set_long is given the bar's close instead of the live price.
SetLongEntryClose ==
  /\ pc = "set_long_entry"
  /\ entry_price' = tick.price
  /\ pc' = "upsert_position"
  /\ UNCHANGED <<stop, config, surface, pos_side, pos_qty, last_close_time, orders, trades, positions, tick, tick0>>

SetLongEntry ==
  /\ pc = "set_long_entry"
  /\ entry_price' = tick.price_now
  /\ pc' = "upsert_position"
  /\ UNCHANGED <<stop, config, surface, pos_side, pos_qty, last_close_time, orders, trades, positions, tick, tick0>>

\* _set_long, line 229, and upsert_position (storage.py lines 62-73)
UpsertPosition ==
  /\ pc = "upsert_position"
  /\ positions' = <<[side |-> "LONG", qty |-> pos_qty, entry_price |-> entry_price]>>
  /\ pc' = "loop"
  /\ UNCHANGED <<stop, config, surface, position, last_close_time, orders, trades, tick, tick0>>

UpsertPositionFails ==
  /\ pc = "upsert_position"
  /\ Raise("upsert_position")
  /\ UNCHANGED <<stop, config, surface, position, last_close_time, orders, trades, positions, tick0>>

\* Mutant: the handler puts the last processed close time back, so that the
\* failed bar is fetched as new again.
HandlerRollsBack ==
  /\ pc = "handler"
  /\ tick' = [tick EXCEPT !.logged = TRUE]
  /\ last_close_time' = tick0.lct
  /\ pc' = "loop"
  /\ UNCHANGED <<stop, config, surface, position, orders, trades, positions, tick0>>

\* Lines 181-184: the handler logs the error and the loop goes on.
Handler ==
  /\ pc = "handler"
  /\ tick' = [tick EXCEPT !.logged = TRUE]
  /\ pc' = "loop"
  /\ UNCHANGED <<stop, config, surface, position, last_close_time, orders, trades, positions, tick0>>

\* The handler's own log write (storage.log) raises: nothing catches it and
\* run ends with the exception.
HandlerFails ==
  /\ pc = "handler"
  /\ pc' = "crashed"
  /\ tick' = NewTick
  /\ UNCHANGED <<stop, config, surface, position, last_close_time, orders, trades, positions, tick0>>

\* Bot.stop (lines 188-189), called from the control surface at any time.
Stop ==
  /\ ~stop
  /\ stop' = TRUE
  /\ UNCHANGED <<pc, config, surface, position, last_close_time, orders, trades, positions, tick, tick0>>

\* One step of the engine's thread.
Run ==
  \/ InitKlines \/ InitFailed \/ LoopEnter \/ LoopExit
  \/ FetchKlines \/ FetchKlinesFails \/ Compute \/ ComputeFails
  \/ SellMarket \/ SellMarketFails \/ SellTrade \/ SellTradeFails
  \/ SetFlatSide \/ SetFlatQty \/ SetFlatEntry \/ ClearPosition \/ ClearPositionFails
  \/ Ticker \/ TickerFails \/ ComputeQtyFails \/ ComputeQty
  \/ BuyMarket \/ BuyMarketFails \/ BuyTrade \/ BuyTradeFails
  \/ SetLongSide \/ SetLongQty \/ SetLongEntry \/ UpsertPosition \/ UpsertPositionFails
  \/ Handler \/ HandlerFails

Next == Run \/ Stop

Spec == Init /\ [][Next]_vars

Terminated == pc \in {"init_failed", "stopped", "crashed"}

\* What the engine did since the current iteration began.
NewOrders == SubSeq(orders, tick0.norders + 1, Len(orders))
NewTrades == SubSeq(trades, tick0.ntrades + 1, Len(trades))
PositionKept == pos_side = tick0.side /\ pos_qty = tick0.qty /\ entry_price = tick0.entry

\* The engine with its scheduling: a thread whose blocking calls return
\* takes its next step.
FairSpec == Spec /\ WF_vars(Run)

\* ------------------------------------------------- the order sizer alone
\* Inputs of Bot._compute_qty from line 204 on: the balance, the live price
\* and the filters, for every configuration of risk_pct and max_pos.
SizerInputs ==
  {[bal |-> b, filters |-> Filters(lo, hi, st, mn), raised |-> FALSE] @@
     [NewTick EXCEPT !.price_now = p] :
       b \in 0..SzMaxBal, p \in (-1)..SzMaxPrice,
       lo \in 0..SzMaxFilter, hi \in 1..SzMaxFilter,
       st \in 0..SzMaxFilter, mn \in 0..SzMaxNotional}

SizerInit ==
  /\ SurfaceInit
  /\ pc = "sizer"
  /\ stop = FALSE
  /\ dry_run = TRUE
  /\ risk_pct \in {10, 50, 100}
  /\ max_pos \in 0..SzMaxPos
  /\ pos_side = "FLAT" /\ pos_qty = Zero /\ entry_price = 0
  /\ last_close_time = 0
  /\ orders = <<>> /\ trades = <<>> /\ positions = <<>>
  /\ tick \in {t \in SizerInputs : t.filters.minQty <= t.filters.maxQty}
  /\ tick0 = [side |-> "FLAT", qty |-> Zero, entry |-> 0, ntrades |-> 0, norders |-> 0, lct |-> 0]

\* Lines 204-211 of Bot._compute_qty
SizerApply ==
  /\ pc = "sizer"
  /\ LET r == ConformQtyAndNotional(RawQty(tick.bal, risk_pct, max_pos, tick.price_now),
                                    tick.price_now, tick.filters)
     IN tick' = [tick EXCEPT !.sized = TRUE, !.raised = r.raised, !.qty = r.qty]
  /\ pc' = "sized"
  /\ UNCHANGED <<stop, config, surface, position, last_close_time, orders, trades, positions, tick0>>

SizerSpec == SizerInit /\ [][SizerApply]_vars

\* ------------------------------------------- TrendPhases.compute alone
\* One bar of the window as lines 94-107 read it: the short EMA, and the
\* conjunction of the other four conditions of strongUpTrend and of
\* strongDownTrend (exclusive: emaShort > emaLong against emaShort < emaLong).
BarSet ==
  {b \in [ema : 0..MaxEma, upRest : BOOLEAN, downRest : BOOLEAN] : ~(b.upRest /\ b.downRest)}

BarWindows == UNION {[1..n -> BarSet] : n \in 1..MaxBars}

\* pandas Series.shift(1): the first element is missing (<<>> is NaN).
Shift(s) == [t \in 1..Len(s) |-> IF t = 1 THEN <<>> ELSE <<s[t - 1]>>]

\* Mutant: the missing predecessor is filled with True.
FillNaTrue(s, v) == [t \in 1..Len(s) |-> IF s[t] = <<>> THEN TRUE ELSE s[t][1]]

\* pandas Series.fillna(v)
FillNa(s, v) == [t \in 1..Len(s) |-> IF s[t] = <<>> THEN v ELSE s[t][1]]

\* Lines 94-107: a comparison with the missing predecessor is False.
StrongUpTrend(bars) ==
  LET prev == Shift([t \in 1..Len(bars) |-> bars[t].ema])
  IN [t \in 1..Len(bars) |-> bars[t].upRest /\ prev[t] # <<>> /\ bars[t].ema > prev[t][1]]

StrongDownTrend(bars) ==
  LET prev == Shift([t \in 1..Len(bars) |-> bars[t].ema])
  IN [t \in 1..Len(bars) |-> bars[t].downRest /\ prev[t] # <<>> /\ bars[t].ema < prev[t][1]]

\* Lines 94-112 of TrendPhases.compute: the six boolean columns.
TrendPhasesCompute(bars) ==
  LET up == StrongUpTrend(bars)
      down == StrongDownTrend(bars)
      upPrev == FillNa(Shift(up), FALSE)
      downPrev == FillNa(Shift(down), FALSE)
  IN [t \in 1..Len(bars) |->
        [strongUpTrend |-> up[t], strongDownTrend |-> down[t],
         debutHausse |-> up[t] /\ ~upPrev[t],
         debutBaisse |-> down[t] /\ ~downPrev[t],
         finHausse   |-> upPrev[t] /\ ~up[t],
         finBaisse   |-> downPrev[t] /\ ~down[t]]]

EdgeInit ==
  /\ SurfaceInit
  /\ pc = "edges"
  /\ stop = FALSE
  /\ dry_run = TRUE /\ risk_pct \in RiskPcts /\ max_pos \in MaxPosSet
  /\ pos_side = "FLAT" /\ pos_qty = Zero /\ entry_price = 0
  /\ last_close_time = 0
  /\ orders = <<>> /\ trades = <<>> /\ positions = <<>>
  /\ tick \in {[bars |-> b, out |-> <<>>] @@ NewTick : b \in BarWindows}
  /\ tick0 = [side |-> "FLAT", qty |-> Zero, entry |-> 0, ntrades |-> 0, norders |-> 0, lct |-> 0]

\* Line 148: calc = self.strat.compute(new_df)
EdgeApply ==
  /\ pc = "edges"
  /\ tick' = [tick EXCEPT !.out = TrendPhasesCompute(tick.bars), !.computed = TRUE]
  /\ pc' = "edged"
  /\ UNCHANGED <<stop, config, surface, position, last_close_time, orders, trades, positions, tick0>>

EdgeSpec == EdgeInit /\ [][EdgeApply]_vars

\* ------------------------------------------------------------ rsi alone
RAdd(a, b) == Rat(a.n * b.d + b.n * a.d, a.d * b.d)
\* a / b for b # 0
RDiv(a, b) == Rat(a.n * b.d, a.d * b.n)

CloseWindows == UNION {[1..n -> 0..MaxClose] : n \in 1..MaxBars}

\* Line 18, series.diff(): the first change is missing (<<>> is NaN).
Diff(s) == [t \in 1..Len(s) |-> IF t = 1 THEN <<>> ELSE <<s[t] - s[t - 1]>>]

\* Line 19, delta.where(delta > 0, 0.0): a comparison with NaN is False.
Gains(delta) ==
  [t \in 1..Len(delta) |-> IF delta[t] # <<>> /\ delta[t][1] > 0 THEN delta[t][1] ELSE 0]

\* Line 20, -delta.where(delta < 0, 0.0)
Losses(delta) ==
  [t \in 1..Len(delta) |-> IF delta[t] # <<>> /\ delta[t][1] < 0 THEN -delta[t][1] ELSE 0]

SumOver[x \in Seq(Int), a \in Nat, b \in Nat] ==
  IF a > b THEN 0 ELSE x[b] + SumOver[x, a, b - 1]

\* Series.rolling(window=length).mean(): missing until the window is full.
RollingMean(x, length) ==
  [t \in 1..Len(x) |->
     IF t < length THEN <<>> ELSE <<Rat(SumOver[x, t - length + 1, t], length)>>]

\* Line 21, rs = gain / loss.replace(0, np.nan)
RsiRatio(gain, loss) ==
  IF gain = <<>> \/ loss = <<>> THEN <<>>
  ELSE IF loss[1] = Zero THEN <<>>
  ELSE <<RDiv(gain[1], loss[1])>>

\* Lines 17-23 of rsi(series, length)
Rsi(series, length) ==
  LET delta == Diff(series)
      gain == RollingMean(Gains(delta), length)
      loss == RollingMean(Losses(delta), length)
  IN [t \in 1..Len(series) |->
        LET rs == RsiRatio(gain[t], loss[t])
        IN IF rs = <<>> THEN FromInt(50)
           ELSE RSub(FromInt(100), RDiv(FromInt(100), RAdd(FromInt(1), rs[1])))]

RsiInit ==
  /\ SurfaceInit
  /\ pc = "rsi"
  /\ stop = FALSE
  /\ dry_run = TRUE /\ risk_pct \in RiskPcts /\ max_pos \in MaxPosSet
  /\ pos_side = "FLAT" /\ pos_qty = Zero /\ entry_price = 0
  /\ last_close_time = 0
  /\ orders = <<>> /\ trades = <<>> /\ positions = <<>>
  /\ tick \in {[closes |-> c, length |-> n, out |-> <<>>] @@ NewTick :
                  c \in CloseWindows, n \in 1..MaxRsiLen}
  /\ tick0 = [side |-> "FLAT", qty |-> Zero, entry |-> 0, ntrades |-> 0, norders |-> 0, lct |-> 0]

\* Line 90: out["rsi"] = rsi(out["close"], self.rsi_len)
RsiApply ==
  /\ pc = "rsi"
  /\ tick' = [tick EXCEPT !.out = Rsi(tick.closes, tick.length), !.computed = TRUE]
  /\ pc' = "rsi_done"
  /\ UNCHANGED <<stop, config, surface, position, last_close_time, orders, trades, positions, tick0>>

RsiSpec == RsiInit /\ [][RsiApply]_vars

\* ------------------------------------------- the control surface alone
\* dashboard.py with its engines followed by their lifecycle only: a Bot is
\* [sym, state, stop, dry_run], running from start() until run returns or
\* dies.  One browser session, hence one registry.
engine == <<pc, stop, config, position, last_close_time, orders, trades, positions, tick, tick0>>

\* Bot(...) and bot.start() (lines 45-47, 83-85, 93-95)
NewBot(sym, dry) == [sym |-> sym, state |-> "running", stop |-> FALSE, dry_run |-> dry]

\* Thread.is_alive() of the registered engine e
IsAlive(e) == threads[e].state = "running"

\* Lines 37-49, the launch button.  It is refused with a warning while the
\* registered engine is alive; otherwise a Bot is constructed, started and
\* registered.  (Where is_alive() of an ended engine raises instead of
\* returning False, because line 124 of bot_core.py rebinds Thread._stop,
\* the handler ends there and nothing changes.)
Launch(sym, dry) ==
  /\ Len(threads) < MaxEngines
  /\ ~(bots[sym] # 0 /\ IsAlive(bots[sym]))
  /\ threads' = Append(threads, NewBot(sym, dry))
  /\ bots' = [bots EXCEPT ![sym] = Len(threads) + 1]
  /\ UNCHANGED <<engine, view>>

\* Lines 71-75, the Stop button of a row
StopButton(sym) ==
  /\ bots[sym] # 0
  /\ ~threads[bots[sym]].stop
  /\ threads' = [threads EXCEPT ![bots[sym]].stop = TRUE]
  /\ UNCHANGED <<engine, bots, view>>

\* Lines 80-87 (TEST, dry = TRUE) and 90-97 (PROD, dry = FALSE): stop() on
\* the registered Bot, then a new Bot constructed, started and registered.
Restart(sym, dry) ==
  /\ bots[sym] # 0
  /\ Len(threads) < MaxEngines
  /\ threads' = Append([threads EXCEPT ![bots[sym]].stop = TRUE], NewBot(sym, dry))
  /\ bots' = [bots EXCEPT ![sym] = Len(threads) + 1]
  /\ UNCHANGED <<engine, view>>

\* Lines 82-84 / 92-94 and 88-89 / 98-99: the constructor raises after
\* stop(); the error is shown and the registry keeps the old Bot.
RestartFails(sym) ==
  /\ bots[sym] # 0
  /\ ~threads[bots[sym]].stop
  /\ threads' = [threads EXCEPT ![bots[sym]].stop = TRUE]
  /\ UNCHANGED <<engine, bots, view>>

\* Bot.run, lines 139 and 186: the loop test observes stop and run returns.
EngineExits(e) ==
  /\ threads[e].state = "running"
  /\ threads[e].stop
  /\ threads' = [threads EXCEPT ![e].state = "ended"]
  /\ UNCHANGED <<engine, bots, view>>

\* Bot.run, lines 131-137 and 181-184: run returns after a failed initial
\* fetch, or dies of a failed log write.
EngineDies(e) ==
  /\ threads[e].state = "running"
  /\ threads' = [threads EXCEPT ![e].state = "ended"]
  /\ UNCHANGED <<engine, bots, view>>

SurfaceNext ==
  \/ \E sym \in Symbols, dry \in BOOLEAN : Launch(sym, dry)
  \/ \E sym \in Symbols : StopButton(sym)
  \/ \E sym \in Symbols, dry \in BOOLEAN : Restart(sym, dry)
  \/ \E sym \in Symbols : RestartFails(sym)
  \/ \E e \in 1..Len(threads) : EngineExits(e)
  \/ \E e \in 1..Len(threads) : EngineDies(e)

SurfaceInitAll == Init /\ dry_run = TRUE

SurfaceSpec == SurfaceInitAll /\ [][SurfaceNext]_vars

\* ------------------------------------- the status row beside the engine
\* dashboard.py line 64, rendered by the script's thread while the engine's
\* thread runs: the test bot.pos_side == 'LONG', then the three attribute
\* reads of the f-string, each a step of its own.
ReadCond ==
  /\ view.pc = "idle"
  /\ view' = IF pos_side = "LONG" THEN [view EXCEPT !.pc = "side"]
                                  ELSE [NoView EXCEPT !.pc = "done"]
  /\ UNCHANGED <<engine, bots, threads>>

ReadSide ==
  /\ view.pc = "side"
  /\ view' = [view EXCEPT !.pc = "qty", !.side = pos_side]
  /\ UNCHANGED <<engine, bots, threads>>

ReadQty ==
  /\ view.pc = "qty"
  /\ view' = [view EXCEPT !.pc = "entry", !.qty = pos_qty]
  /\ UNCHANGED <<engine, bots, threads>>

ReadEntry ==
  /\ view.pc = "entry"
  /\ view' = [view EXCEPT !.pc = "done", !.entry = entry_price]
  /\ UNCHANGED <<engine, bots, threads>>

\* The next run of the script renders the row again.
Rerun ==
  /\ view.pc = "done"
  /\ view' = NoView
  /\ UNCHANGED <<engine, bots, threads>>

Render == ReadCond \/ ReadSide \/ ReadQty \/ ReadEntry \/ Rerun

StatusSpec == Init /\ [][Next \/ Render]_vars

\* ================================================================ claims
Between == pc \in {"start", "loop", "stopped", "init_failed", "crashed"}

\* C1: whenever the engine stands between two loop iterations (after
\* construction, after initialisation, after a tick that ended normally, by
\* the dedup skip or by a caught error), side = FLAT iff quantity = 0, and
\* side = LONG implies quantity > 0.
C1_SideIffQty ==
  Between =>
    /\ (pos_side = "FLAT") <=> (pos_qty = Zero)
    /\ pos_side = "LONG" => RLess(Zero, pos_qty)

\* A tick that entered LONG and then ended in the error handler.
C1_Witness ==
  pc = "loop" /\ pos_side = "LONG" /\ "upsert_position" \in tick.failed /\ RLess(Zero, pos_qty)

\* C2 (as claimed): the orders of one run alternate BUY, SELL, BUY, ...
\* starting with a BUY, and every SELL is for the quantity of the BUY before it.
C2_OrdersAlternate ==
  \A i \in 1..Len(orders) :
    IF i % 2 = 1
    THEN orders[i].side = "BUY"
    ELSE orders[i].side = "SELL" /\ orders[i].qty = orders[i - 1].qty

\* The case of C3: the tick that just ended computed the flags of a new bar
\* while LONG, and an exit flag was set.
C3_Case ==
  /\ pc = "loop" /\ tick.computed /\ tick0.side = "LONG"
  /\ (tick.sig.debutBaisse \/ tick.sig.finHausse)

C3_Exited ==
  /\ Len(NewOrders) = 1 /\ NewOrders[1].side = "SELL" /\ NewOrders[1].qty = tick0.qty
  /\ Len(NewTrades) = 1 /\ NewTrades[1].side = "SELL" /\ NewTrades[1].extra = "exit"
  /\ NewTrades[1].qty = tick0.qty
  /\ pos_side = "FLAT" /\ pos_qty = Zero

C4_Case ==
  pc = "loop" /\ tick.computed /\ tick0.side = "FLAT" /\ tick.sig.debutHausse /\ tick.sized

C4_Entered ==
  /\ Len(NewOrders) = 1 /\ NewOrders[1].side = "BUY" /\ NewOrders[1].qty = tick.qty
  /\ Len(NewTrades) = 1 /\ NewTrades[1].side = "BUY" /\ NewTrades[1].extra = "entry"
  /\ NewTrades[1].qty = tick.qty /\ NewTrades[1].pnl = <<>>
  /\ pos_side = "LONG" /\ pos_qty = tick.qty /\ entry_price = tick.price_now

C4_Nothing == NewOrders = <<>> /\ NewTrades = <<>> /\ PositionKept /\ pos_side = "FLAT"

C4_NoEmptyOrder == \A i \in 1..Len(orders) : RLess(Zero, orders[i].qty)

C5_PnlExact ==
  \A i \in 1..Len(trades) :
    IF trades[i].side = "SELL"
    THEN /\ i > 1 /\ trades[i - 1].side = "BUY"
         /\ trades[i].qty = trades[i - 1].qty
         /\ trades[i].pnl = <<RMul(FromInt(trades[i].price - trades[i - 1].price), trades[i].qty)>>
    ELSE trades[i].pnl = <<>>

\* An exit booked with a loss.
C5_Witness ==
  \E i \in 1..Len(trades) :
    trades[i].side = "SELL" /\ trades[i].pnl # <<Zero>> /\ RLess(trades[i].pnl[1], Zero)

\* C6: a tick whose fetched window is not strictly newer than the last
\* processed close time ends at once: nothing is computed, no order is
\* submitted, no TradeRecord is appended, and Position, the ledger's position
\* row and the last processed close time stay as they were.
C6_DedupSkips ==
  (tick.fetched /\ tick.nct <= tick0.lct) =>
    /\ pc \in {"loop", "stopped"}
    /\ ~tick.computed /\ ~tick.sized /\ tick.failed = {}
    /\ NewOrders = <<>> /\ NewTrades = <<>>
    /\ PositionKept
    /\ last_close_time = tick0.lct

\* The same close time fed again while LONG.
C6_Witness ==
  pc = "loop" /\ tick.fetched /\ tick.nct = tick0.lct /\ pos_side = "LONG"

\* C7 (as claimed): for price > 0 and stepSize > 0 the sized quantity q has
\* minQty <= q <= maxQty, is a multiple of stepSize, and q * price >=
\* minNotional unless q = 0.
C7_SizerBounds ==
  (pc = "sized" /\ tick.price_now > 0 /\ tick.filters.stepSize > 0) =>
    LET q == tick.qty
        f == tick.filters
    IN /\ ~tick.raised
       /\ RLeq(FromInt(f.minQty), q) /\ RLeq(q, FromInt(f.maxQty))
       /\ IsMultiple(q, f.stepSize)
       /\ (q = Zero \/ RLeq(FromInt(f.minNotional), RMul(q, FromInt(tick.price_now))))

ExchangeCalls == {"klines", "ticker", "account", "filters", "order"}

\* C8 (as claimed): a tick in which an exchange call failed (bar window,
\* live price, quote balance, symbol filters, order submission) has logged
\* the failure and ends with Position as it was, no order submitted and no
\* TradeRecord appended.
C8_FailureNoEffect ==
  (pc = "loop" /\ tick.failed \cap ExchangeCalls # {}) =>
    /\ tick.logged
    /\ PositionKept
    /\ NewOrders = <<>>
    /\ NewTrades = <<>>

\* C9 (as claimed): once initialised, the engine ends only by observing the
\* cancellation request at the loop test; no failure inside a tick ends it.
C9_OnlyStopEnds ==
  /\ pc # "crashed"
  /\ pc = "stopped" => stop

\* C10: stop() changes nothing but the cancellation event; once it is set
\* the engine terminates, admits no further iteration, and the iteration in
\* progress submits at most one order and changes Position's side at most
\* once.
C10_StopTerminates ==
  /\ [][stop' # stop => (stop' /\ UNCHANGED <<pc, config, position, last_close_time,
                                                orders, trades, positions, tick, tick0>>)]_vars
  /\ (stop ~> Terminated)
  /\ [][stop => ~(pc = "loop" /\ pc' = "fetch") /\ tick0' = tick0]_vars
  /\ [](stop => Len(orders) <= tick0.norders + 1)
  /\ [][(stop /\ pos_side # tick0.side) => pos_side' = pos_side]_vars

\* Stopped after a last iteration that submitted an order and changed side.
C10_Witness ==
  pc = "stopped" /\ stop /\ Len(orders) = tick0.norders + 1 /\ pos_side # tick0.side
C15_Case ==
  /\ tick.computed
  /\ \/ tick0.side = "FLAT" /\ ~tick.sig.debutHausse
     \/ tick0.side = "LONG" /\ ~tick.sig.debutBaisse /\ ~tick.sig.finHausse

\* C15: in that case, whatever the other flags, the tick submits no order,
\* appends no TradeRecord and leaves side, quantity and entry price as they
\* were; and no tick submits more than one order.
C15_NoAction ==
  /\ C15_Case => (NewOrders = <<>> /\ NewTrades = <<>> /\ PositionKept)
  /\ Len(NewOrders) <= 1

\* LONG, with beginUptrend and endDowntrend both set on the bar.
C15_Witness ==
  /\ pc = "loop" /\ C15_Case /\ tick.failed = {}
  /\ tick0.side = "LONG" /\ tick.sig.debutHausse /\ tick.sig.finBaisse

C19_Count(side) == Cardinality({i \in 1..Len(trades) : trades[i].side = side})

\* C19: between iterations, entry TradeRecords minus exit TradeRecords is 1
\* when Position is LONG and 0 when FLAT, whatever failed; a TradeRecord is
\* appended only after the order of the same side and quantity was submitted
\* (or simulated) in that tick, and Position changes only in a tick that has
\* appended its TradeRecord.
C19_TradeBalance ==
  /\ Between =>
       C19_Count("BUY") - C19_Count("SELL") = (IF pos_side = "LONG" THEN 1 ELSE 0)
  /\ Len(NewTrades) <= Len(NewOrders)
  /\ \A i \in 1..Len(NewTrades) :
       NewTrades[i].side = NewOrders[i].side /\ NewTrades[i].qty = NewOrders[i].qty
  /\ ~PositionKept =>
       /\ Len(NewTrades) = 1
       /\ NewTrades[1].side = (IF tick0.side = "FLAT" THEN "BUY" ELSE "SELL")

\* FLAT after a full round trip whose last ledger write failed.
C19_Witness ==
  /\ pc = "loop" /\ pos_side = "FLAT" /\ C19_Count("BUY") = 1 /\ C19_Count("SELL") = 1
  /\ "clear_position" \in tick.failed

\* C20 (as claimed): between iterations the positions table holds a row for
\* the instrument iff Position is LONG, and the row then carries side LONG
\* with the engine's quantity and entry price, also after a failed ledger
\* write.
C20_LedgerMirrors ==
  Between =>
    /\ (positions # <<>>) <=> (pos_side = "LONG")
    /\ positions # <<>> =>
         positions[1] = [side |-> "LONG", qty |-> pos_qty, entry_price |-> entry_price]

\* The failures that leave the try body before a TradeRecord is written.
C12_Aborted ==
  tick.failed \cap {"klines", "compute", "log", "ticker", "filters", "conform",
                    "order", "insert_trade"} # {}

C12_Kept == [side |-> tick0.side, qty |-> tick0.qty, entry |-> tick0.entry, trades |-> <<>>]

\* What a tick makes of Position and the trades table, from what it was fed
\* (the bar's flags and close, the live price, the sized quantity) and from
\* which of its calls failed; dry_run is not among its arguments.
C12_Expected ==
  IF ~tick.computed \/ C12_Aborted THEN C12_Kept
  ELSE IF tick0.side = "LONG"
  THEN IF tick.sig.debutBaisse \/ tick.sig.finHausse
       THEN [side |-> "FLAT", qty |-> Zero, entry |-> 0,
             trades |-> <<TradeRow("SELL", tick0.qty, tick.price,
                                   <<Pnl(tick.price, tick0.entry, tick0.qty)>>, "exit")>>]
       ELSE C12_Kept
  ELSE IF tick.sig.debutHausse /\ tick.sized /\ RLess(Zero, tick.qty)
       THEN [side |-> "LONG", qty |-> tick.qty, entry |-> tick.price_now,
             trades |-> <<TradeRow("BUY", tick.qty, tick.price_now, <<>>, "entry")>>]
       ELSE C12_Kept

\* C12: in dry-run create_order is never called (every order is a simulated
\* one and no order submission fails); and at the end of every tick Position
\* and the TradeRecords appended are the same function of the tick's inputs
\* and ledger failures in dry-run and in live mode, provided no order
\* submission failed.
C12_DryRunEquivalent ==
  /\ dry_run => ("order" \notin tick.failed /\ \A i \in 1..Len(orders) : orders[i].sim)
  /\ pc = "loop" =>
       /\ pos_side = C12_Expected.side /\ pos_qty = C12_Expected.qty
       /\ entry_price = C12_Expected.entry
       /\ NewTrades = C12_Expected.trades

\* A full round trip in dry-run.
C12_Witness ==
  /\ pc = "loop" /\ dry_run /\ tick.failed = {}
  /\ tick0.side = "LONG" /\ pos_side = "FLAT" /\ Len(NewTrades) = 1 /\ Len(orders) = 2

\* C17 (as claimed): with stepSize <= 0 the rounding step returns the
\* quantity unchanged; with price <= 0 the sizing path returns quantity 0 as
\* a value: it does not raise and returns nothing negative or positive.
C17_DegenerateInputs ==
  /\ \A st \in (-1)..0 : RoundStepSize(tick.qty, st) = tick.qty
  /\ (pc = "sized" /\ tick.price_now <= 0) => (~tick.raised /\ tick.qty = Zero)

C18_AvgGain(t) ==
  Rat(SumOver[[i \in 1..Len(tick.closes) |->
                 IF i > 1 /\ tick.closes[i] > tick.closes[i - 1]
                 THEN tick.closes[i] - tick.closes[i - 1] ELSE 0],
              t - tick.length + 1, t], tick.length)

C18_AvgLoss(t) ==
  Rat(SumOver[[i \in 1..Len(tick.closes) |->
                 IF i > 1 /\ tick.closes[i] < tick.closes[i - 1]
                 THEN tick.closes[i - 1] - tick.closes[i] ELSE 0],
              t - tick.length + 1, t], tick.length)

\* C18 (as claimed): a bar without enough history for the trailing mean has
\* RSI 50; a bar with a full window of price changes has RSI 100 when the
\* average loss is zero, and 100 - 100 / (1 + avgGain / avgLoss) otherwise.
C18_RsiValues ==
  pc = "rsi_done" =>
    \A t \in 1..Len(tick.out) :
      /\ t < tick.length => tick.out[t] = FromInt(50)
      /\ t > tick.length =>
           IF C18_AvgLoss(t) = Zero
           THEN tick.out[t] = FromInt(100)
           ELSE tick.out[t] = RSub(FromInt(100),
                                   RDiv(FromInt(100),
                                        RAdd(FromInt(1), RDiv(C18_AvgGain(t), C18_AvgLoss(t)))))

\* The engines alive for an instrument.
C11_Alive(sym) == {e \in 1..Len(threads) : threads[e].sym = sym /\ threads[e].state = "running"}

\* C11 (as claimed): at every moment at most one engine thread is alive for
\* an instrument: launch and both restarts fail or are refused while the
\* instrument's previous engine is still running.
C11_OneEnginePerInstrument ==
  \A sym \in Symbols : Cardinality(C11_Alive(sym)) <= 1

\* C16 (as claimed): a status row rendered while the engine runs shows a
\* Position the engine held between two iterations: never LONG with
\* quantity 0, and a LONG row carries the quantity and entry price of one
\* entry the engine made.
C16_AtomicSnapshot ==
  (view.pc = "done" /\ view.side = "LONG") =>
    /\ RLess(Zero, view.qty)
    /\ \E i \in 1..Len(trades) :
         /\ trades[i].side = "BUY"
         /\ trades[i].qty = view.qty /\ trades[i].price = view.entry

\* C21: the last processed close time never decreases; a bar is evaluated
\* only if its close time is strictly newer than the last processed one,
\* which is advanced to it before the flags are computed, so the window of
\* the initial fetch is never evaluated and no close time is evaluated
\* twice; and a tick that fails after the dedup test leaves the last
\* processed close time at its bar, so the bar is not evaluated again.
C21_CloseTimeAdvances ==
  /\ [][last_close_time' >= last_close_time]_vars
  /\ [][(tick'.evaluated /\ ~tick.evaluated) =>
         (last_close_time # 0 /\ tick'.nct > last_close_time /\ last_close_time' = tick'.nct)]_vars
  /\ [](tick.computed => (tick.evaluated /\ tick0.lct # 0 /\ tick.nct > tick0.lct))
  /\ [](tick.evaluated => last_close_time = tick.nct)
  /\ []((pc = "start") => (~tick.evaluated /\ ~tick.computed))
  /\ [][pc \notin {"start", "fetch"} => last_close_time' = last_close_time]_vars

\* A tick with an entry signal that failed after the dedup test and ended
\* in the handler: its bar stays processed.
C21_Witness ==
  /\ pc = "loop" /\ tick.evaluated /\ tick.computed /\ tick.sig.debutHausse
  /\ "ticker" \in tick.failed /\ tick.logged
  /\ last_close_time = tick.nct /\ tick.nct > tick0.lct /\ pos_side = "FLAT"
====
